---- MODULE Spec2Model ----
(***************************************************************************)
(* Voting consensus engine of MAKER-Council (src/server.py):               *)
(* VotingController, first_to_ahead_by_k_voting with its batch waves,      *)
(* check_red_flags, the process-wide semaphore and the ResponseCache.      *)
(*                                                                         *)
(* Conventions.                                                            *)
(*  - A Python str is a sequence of symbols; each symbol is a one-element  *)
(*    token (" " is the whitespace symbol, "A:" stands for the marker      *)
(*    'Answer:' that extract_code_or_answer splits on).                    *)
(*  - An optional value (str | None) is a sequence of length <= 1:         *)
(*    <<>> is None and <<t>> is the string t.                              *)
(*  - A dict is the sequence of its items in insertion order, which is the *)
(*    order Python iterates it in.                                         *)
(*  - asyncio is cooperative: the code between two suspension points runs  *)
(*    as one step, so an action is the code from one await that really     *)
(*    suspends to the next.                                                *)
(***************************************************************************)
EXTENDS Integers, Sequences, FiniteSets, TLC

VARIABLES
  hctl,     \* harness: one VotingController, [winner, terminated]
  hvotes,   \* harness: the votes dict its callers pass to it
  hk,       \* harness: the margin k its callers pass to it
  hlast,    \* harness: the last call made on it, [op, cand, ret]
  cfg,      \* the configuration: [voters, permits, k, max_rounds, early, batch]
  run,      \* per voter: the locals of its first_to_ahead_by_k_voting call
  sem,      \* the process-wide semaphore: [value, waiters]
  cs,       \* the process-wide ResponseCache: [entries, hits, misses, max_size]
  now,      \* time.time()
  clast,    \* cache harness: the last call made, [op, tr, temp, ret, had, at, again, full]
  plast,    \* pure functions: the last application, [fn, text, tokens, max, out]
  slast     \* semaphore harness: the last step, [op, id, woke]

hvars == <<hctl, hvotes, hk, hlast>>

rvars == <<cfg, run>>

svars == <<sem, cs, now>>

vars == <<hctl, hvotes, hk, hlast, cfg, run, sem, cs, now, clast, plast, slast>>

\* ---------------------------------------------------------------- bounds
\* Largest margin k a caller passes.
MaxK == 2

\* Largest count the harness lets one candidate reach in the votes dict.
MaxVotes == 3

\* Largest max_rounds (MAKER_MAX_ROUNDS) a run is configured with.
MaxRounds == 3

\* The clock stops advancing here.
MaxTime == 2

\* Largest number of cache lookups (hits + misses) the cache harness makes.
MaxOps == 3

\* The longest text a pure function is applied to.
MaxLen == 2

\* ---------------------------------------------------------------- configuration
\* The values the environment configures, scaled down (src/server.py:48-57).
MAX_TOKENS_THRESHOLD == 2

\* MAKER_MAX_CONCURRENT, fixed when the process starts.
MAX_CONCURRENT_REQUESTS == cfg.permits

\* The batch_size argument of first_to_ahead_by_k_voting.
batch_size_arg == cfg.batch

BATCH_SIZE == 2

CACHE_TTL_SECONDS == 1

CACHE_MAX_SIZE == 2

\* temperature=0.7, the default and what every caller passes, in tenths.
DefaultTemperature == 7

Voters == {1, 2}

\* ---------------------------------------------------------------- strings
None == <<>>

Some(x) == <<x>>

\* Candidate keys the samples canonicalize to.
Cands == {<<"a">>, <<"b">>}

\* ---------------------------------------------------------------- text
RECURSIVE LStrip(_)
LStrip(t) == IF t # <<>> /\ Head(t) = " " THEN LStrip(Tail(t)) ELSE t

RECURSIVE RStrip(_)
RStrip(t) == IF t # <<>> /\ t[Len(t)] = " " THEN RStrip(SubSeq(t, 1, Len(t) - 1)) ELSE t

\* str.strip()
Strip(t) == RStrip(LStrip(t))

\* extract_code_or_answer on texts without a code fence: the text after the
\* first marker, stripped; else the whole text, stripped.
extract_code_or_answer(response) ==
  LET at == {i \in 1..Len(response) : response[i] = "A:"}
  IN IF at # {}
     THEN LET i == CHOOSE j \in at : \A m \in at : j <= m
          IN Strip(SubSeq(response, i + 1, Len(response)))
     ELSE Strip(response)

\* The extract_answer every caller of the multi-voter path passes.
extract_answer(response) == extract_code_or_answer(response)

\* check_red_flags that also rejects a response of exactly max_tokens tokens
check_red_flags_ge(response, num_tokens, max_tokens) ==
  IF num_tokens >= max_tokens
  THEN [is_valid |-> FALSE, reason |-> "long", content |-> <<>>]
  ELSE IF Strip(response) = <<>>
       THEN [is_valid |-> FALSE, reason |-> "empty", content |-> <<>>]
       ELSE [is_valid |-> TRUE, reason |-> "none", content |-> response]

\* check_red_flags
check_red_flags(response, num_tokens, max_tokens) ==
  IF num_tokens > max_tokens
  THEN [is_valid |-> FALSE, reason |-> "long", content |-> <<>>]
  ELSE IF Strip(response) = <<>>
       THEN [is_valid |-> FALSE, reason |-> "empty", content |-> <<>>]
       ELSE [is_valid |-> TRUE, reason |-> "none", content |-> response]

\* ---------------------------------------------------------------- backend
\* What one backend call can end in: a response (text, output tokens) or an
\* exception (transport failure, timeout, rate limit).
BackendError == [ok |-> FALSE, text |-> <<>>, tokens |-> 0]

Resp(text, tokens) == [ok |-> TRUE, text |-> text, tokens |-> tokens]

Outcomes ==
  { BackendError,
    Resp(<<"a">>, MAX_TOKENS_THRESHOLD),
    Resp(<<"b", " ">>, 1),
    Resp(<<" ">>, 1),
    Resp(<<"a">>, MAX_TOKENS_THRESHOLD + 1),
    Resp(<<"A:", " ">>, 1) }

\* How an attempt ended, for the record the run keeps of its attempts.
OutcomeClass(o) ==
  IF ~o.ok THEN "error"
  ELSE IF ~check_red_flags(o.text, o.tokens, MAX_TOKENS_THRESHOLD).is_valid THEN "flagged"
  ELSE IF extract_answer(o.text) = <<>> THEN "empty"
  ELSE "valid"

\* ---------------------------------------------------------------- ResponseCache
\* The one request every voter of a multi-voter call sends.
Model == <<"m">>

System == <<"s">>

Prompt == <<"p">>

\* ResponseCache(max_size)
NewCacheOf(max_size) == [entries |-> <<>>, hits |-> 0, misses |-> 0, max_size |-> max_size]

\* _response_cache = ResponseCache()
NewCache == NewCacheOf(CACHE_MAX_SIZE)

\* _make_key that keys a request whatever its temperature
make_key_anytemp(model, system, prompt, temperature) ==
  model \o <<":">> \o system \o <<":">> \o prompt

\* ResponseCache._make_key. The 16 hex digits of the SHA-256 digest stand for
\* the hashed content itself, so two keys are equal iff the contents are.
make_key(model, system, prompt, temperature) ==
  IF temperature > 0 THEN <<>>
  ELSE model \o <<":">> \o system \o <<":">> \o prompt

\* is_expired with the entry living one second longer
is_expired_late(entry, ttl, t) == t - entry.timestamp > ttl + 1

\* CacheEntry.is_expired
is_expired(entry, ttl, t) == t - entry.timestamp > ttl

\* self._cache.get(key): the position of the key, 0 when absent.
EntryAt(entries, key) ==
  LET at == {i \in 1..Len(entries) : entries[i].key = key}
  IN IF at = {} THEN 0 ELSE CHOOSE i \in at : TRUE

\* del self._cache[k] for every position in drop.
RECURSIVE Without(_, _, _)
Without(entries, drop, i) ==
  IF i > Len(entries) THEN <<>>
  ELSE (IF i \in drop THEN <<>> ELSE <<entries[i]>>) \o Without(entries, drop, i + 1)

\* ResponseCache.get: the (value, tokens) of a live entry, else None; an
\* expired entry is deleted.
cache_get(c, model, system, prompt, temperature, t) ==
  LET key == make_key(model, system, prompt, temperature)
      i == EntryAt(c.entries, key)
  IN IF key = <<>> THEN [ret |-> None, c |-> c]
     ELSE IF i # 0 /\ ~is_expired(c.entries[i], CACHE_TTL_SECONDS, t)
     THEN [ret |-> Some([text |-> c.entries[i].value, tokens |-> c.entries[i].tokens]),
           c |-> [c EXCEPT !.hits = @ + 1]]
     ELSE [ret |-> None,
           c |-> [c EXCEPT !.entries = IF i # 0 THEN Without(@, {i}, 1) ELSE @,
                           !.misses = @ + 1]]

\* _cleanup that drops the newest half
cleanup_newest(entries, max_size, t) ==
  LET live == Without(entries, {i \in 1..Len(entries) :
                                  is_expired(entries[i], CACHE_TTL_SECONDS, t)}, 1)
      n == Len(live)
      After(i) == {j \in 1..n : \/ live[j].timestamp > live[i].timestamp
                                \/ live[j].timestamp = live[i].timestamp /\ j > i}
  IN IF n >= max_size
     THEN Without(live, {i \in 1..n : Cardinality(After(i)) < n \div 2}, 1)
     ELSE live

\* ResponseCache._cleanup: drop the expired entries; if still full, drop the
\* first len // 2 entries of the (stable) sort by timestamp.
cleanup(entries, max_size, t) ==
  LET live == Without(entries, {i \in 1..Len(entries) :
                                  is_expired(entries[i], CACHE_TTL_SECONDS, t)}, 1)
      n == Len(live)
      Before(i) == {j \in 1..n : \/ live[j].timestamp < live[i].timestamp
                                 \/ live[j].timestamp = live[i].timestamp /\ j < i}
  IN IF n >= max_size
     THEN Without(live, {i \in 1..n : Cardinality(Before(i)) < n \div 2}, 1)
     ELSE live

\* set that stores the text but loses the token count
cache_set_notokens(c, model, system, prompt, temperature, value, tokens, t) ==
  LET key == make_key(model, system, prompt, temperature)
      entry == [key |-> key, value |-> value, tokens |-> 0, timestamp |-> t]
      i == EntryAt(c.entries, key)
  IN IF key = <<>> THEN c
     ELSE [c EXCEPT !.entries = IF i # 0 THEN [@ EXCEPT ![i] = entry]
                                ELSE Append(@, entry)]

\* ResponseCache.set
cache_set(c, model, system, prompt, temperature, value, tokens, t) ==
  LET key == make_key(model, system, prompt, temperature)
      kept == IF Len(c.entries) >= c.max_size THEN cleanup(c.entries, c.max_size, t)
              ELSE c.entries
      entry == [key |-> key, value |-> value, tokens |-> tokens, timestamp |-> t]
      i == EntryAt(kept, key)
  IN IF key = <<>> THEN c
     ELSE [c EXCEPT !.entries = IF i # 0 THEN [kept EXCEPT ![i] = entry]
                                ELSE Append(kept, entry)]

\* ---------------------------------------------------------------- votes dict
\* votes.get(candidate, 0)
VotesGet(votes, candidate) ==
  LET hit == {i \in 1..Len(votes) : votes[i].c = candidate}
  IN IF hit = {} THEN 0 ELSE votes[CHOOSE i \in hit : TRUE].n

\* state.votes[canonical] += 1 on a defaultdict(int): a new key is appended
\* with count 1, an existing key keeps its position.
VotesInc(votes, candidate) ==
  IF \E i \in 1..Len(votes) : votes[i].c = candidate
  THEN [i \in 1..Len(votes) |->
          IF votes[i].c = candidate THEN [c |-> candidate, n |-> votes[i].n + 1]
          ELSE votes[i]]
  ELSE Append(votes, [c |-> candidate, n |-> 1])

\* max(iterable of ints, default=0)
MaxDefault0(S) == IF S = {} THEN 0 ELSE CHOOSE m \in S : \A x \in S : x <= m

\* ---------------------------------------------------------------- VotingController
NewController == [winner |-> None, terminated |-> FALSE]

\* check_and_set_winner with a strict margin (> where the code has >=)
check_and_set_winner_gt(ctl, candidate, votes, k) ==
  IF ctl.terminated THEN [ret |-> FALSE, ctl |-> ctl]
  ELSE LET current_votes == VotesGet(votes, candidate)
           max_other_votes ==
             MaxDefault0({votes[i].n : i \in {j \in 1..Len(votes) : votes[j].c # candidate}})
       IN IF current_votes > k + max_other_votes
          THEN [ret |-> TRUE, ctl |-> [winner |-> Some(candidate), terminated |-> TRUE]]
          ELSE [ret |-> FALSE, ctl |-> ctl]

\* VotingController.check_and_set_winner: the body runs under self._lock with
\* no await inside it, so it is one step. Returns the bool and the controller.
check_and_set_winner(ctl, candidate, votes, k) ==
  IF ctl.terminated THEN [ret |-> FALSE, ctl |-> ctl]
  ELSE LET current_votes == VotesGet(votes, candidate)
           max_other_votes ==
             MaxDefault0({votes[i].n : i \in {j \in 1..Len(votes) : votes[j].c # candidate}})
       IN IF current_votes >= k + max_other_votes
          THEN [ret |-> TRUE, ctl |-> [winner |-> Some(candidate), terminated |-> TRUE]]
          ELSE [ret |-> FALSE, ctl |-> ctl]

\* VotingController.terminate: assigns unconditionally, takes no lock.
terminate(ctl, winner) == [winner |-> Some(winner), terminated |-> TRUE]

\* The controller harness at rest, while the runs are exercised.
NoCall ==
  [op |-> "none", tr |-> <<>>, temp |-> 0, ret |-> None, had |-> FALSE, at |-> 0,
   again |-> FALSE, full |-> FALSE]

NoWake == [op |-> "none", id |-> <<>>, woke |-> <<>>]

NoApply == [fn |-> "none", text |-> <<>>, tokens |-> 0, max |-> 0, out |-> None]

HarnessIdle ==
  /\ hctl = NewController
  /\ hvotes = <<>>
  /\ hk = 1
  /\ hlast = [op |-> "none", cand |-> None, ret |-> FALSE]
  /\ clast = NoCall
  /\ plast = NoApply
  /\ slast = NoWake

\* ---------------------------------------------------------------- run state
\* The world the steps of the runs read and write, as one value.
Cur == [run |-> run, sem |-> sem, cs |-> cs]

\* one VotingState for all the runs: every run sees the tally of voter 1
Step_shared(W) ==
  /\ run' = [u \in Voters |-> [W.run[u] EXCEPT !.votes = W.run[1].votes]]
  /\ sem' = W.sem
  /\ cs' = W.cs

Step(W) ==
  /\ run' = W.run
  /\ sem' = W.sem
  /\ cs' = W.cs

\* What sample_vote hands back: (canonical, is_valid), or an exception.
Ret(canonical, is_valid) == [kind |-> "ret", canonical |-> canonical, is_valid |-> is_valid]

Raised == [kind |-> "raise", canonical |-> None, is_valid |-> FALSE]

\* A sample_vote call: created, waiting for a permit, in its backend call,
\* done, folded into the state, being cancelled, cancelled.
NewTask == [st |-> "new", res |-> Ret(None, FALSE)]

\* How the attempts of a run have ended so far: nothing yet, only backend
\* errors, only red flags, both, or anything else (a sample that passed the red
\* flags).
Seen(hist, class) ==
  IF hist = "other" \/ class \in {"empty", "valid"} THEN "other"
  ELSE IF hist = "none" THEN class
  ELSE IF hist = class THEN hist
  ELSE "both"

\* VotingState(), VotingController() and the locals of a run; issued counts the
\* sample_vote calls the run made, temps lists their temperatures in call
\* order, seen records how its attempts ended, lap tells one turn of a loop
\* over empty waves from the next once batch_rounds is past the bound.
NewRun ==
  [pc |-> "start", votes |-> <<>>, total_samples |-> 0, valid_samples |-> 0,
   red_flagged |-> 0, batch_rounds |-> 0, early_terminated |-> FALSE,
   samples_remaining |-> 0, ctl |-> NewController, tasks |-> <<>>,
   ret |-> None, issued |-> 0, seen |-> "none", temps |-> <<>>, lap |-> 0]

\* ---------------------------------------------------------------- semaphore
\* acquire that never waits: the call goes to the backend whatever is free
sem_acquire_free(W, v, i) ==
  [W EXCEPT !.run[v].tasks[i].st = "inflight"]

\* async with get_semaphore(), entry. asyncio.Semaphore(MAX_CONCURRENT_REQUESTS): acquire
\* takes a permit when one is free and nobody queues, else queues FIFO.
sem_acquire(W, v, i) ==
  IF W.sem.value > 0 /\ W.sem.waiters = <<>>
  THEN [W EXCEPT !.sem.value = @ - 1, !.run[v].tasks[i].st = "inflight"]
  ELSE [W EXCEPT !.sem.waiters = Append(@, <<v, i>>), !.run[v].tasks[i].st = "waiting"]

\* a release that wakes the waiter that queued last
sem_release_last(W) ==
  IF W.sem.waiters # <<>>
  THEN LET id == W.sem.waiters[Len(W.sem.waiters)]
       IN [W EXCEPT !.sem.waiters = SubSeq(@, 1, Len(@) - 1),
                    !.run[id[1]].tasks[id[2]].st = "inflight"]
  ELSE [W EXCEPT !.sem.value = @ + 1]

\* async with get_semaphore(): exit. The permit goes to the first waiter, who
\* then makes its backend call, or back to the semaphore.
sem_release(W) ==
  IF W.sem.waiters # <<>>
  THEN LET id == Head(W.sem.waiters)
       IN [W EXCEPT !.sem.waiters = Tail(@), !.run[id[1]].tasks[id[2]].st = "inflight"]
  ELSE [W EXCEPT !.sem.value = @ + 1]

\* ---------------------------------------------------------------- sample_vote
\* sample_vote without its except Exception: a backend error propagates
sample_vote_result_reraise(o) ==
  IF ~o.ok THEN Raised
  ELSE LET flag_result == check_red_flags(o.text, o.tokens, MAX_TOKENS_THRESHOLD)
           canonical == extract_answer(o.text)
       IN IF ~flag_result.is_valid THEN Ret(None, FALSE)
          ELSE IF canonical = <<>> THEN Ret(None, FALSE)
          ELSE Ret(Some(canonical), TRUE)

\* sample_vote without the red-flag check
sample_vote_result_noflag(o) ==
  IF ~o.ok THEN Ret(None, FALSE)
  ELSE LET canonical == extract_answer(o.text)
       IN IF canonical = <<>> THEN Ret(None, FALSE)
          ELSE Ret(Some(canonical), TRUE)

\* sample_vote once create_message has returned or raised: red flags, the
\* canonical form, and except Exception.
sample_vote_result(o) ==
  IF ~o.ok THEN Ret(None, FALSE)
  ELSE LET flag_result == check_red_flags(o.text, o.tokens, MAX_TOKENS_THRESHOLD)
           canonical == extract_answer(o.text)
       IN IF ~flag_result.is_valid THEN Ret(None, FALSE)
          ELSE IF canonical = <<>> THEN Ret(None, FALSE)
          ELSE Ret(Some(canonical), TRUE)

\* sample_vote up to its first suspension: the short-circuit, then
\* create_message's cache lookup and its entry into the semaphore.
start_sample(W0, v, i, use_temp) ==
  LET W == [W0 EXCEPT !.run[v].temps = Append(@, use_temp)]
  IN
  IF W.run[v].ctl.terminated /\ cfg.early
  THEN [W EXCEPT !.run[v].tasks[i] = [st |-> "done", res |-> Ret(None, FALSE)]]
  ELSE LET g == cache_get(W.cs, Model, System, Prompt, use_temp, now)
           W1 == [W EXCEPT !.cs = g.c]
       IN IF g.ret # None
          THEN LET o == Resp(g.ret[1].text, g.ret[1].tokens)
               IN [W1 EXCEPT !.run[v].tasks[i] = [st |-> "done", res |-> sample_vote_result(o)],
                             !.run[v].seen = Seen(@, OutcomeClass(o))]
          ELSE sem_acquire(W1, v, i)

\* a create_message that gives the permit back only when the call succeeds
finish_sample_leak(W, v, i, use_temp, o) ==
  LET W1 == [W EXCEPT !.run[v].tasks[i] = [st |-> "done", res |-> sample_vote_result(o)],
                      !.run[v].seen = Seen(@, OutcomeClass(o))]
  IN IF o.ok
     THEN [sem_release(W1) EXCEPT
             !.cs = cache_set(@, Model, System, Prompt, use_temp, o.text, o.tokens, now)]
     ELSE W1

\* The backend call of task i ends in o: create_message leaves the semaphore,
\* stores a response in the cache and returns; sample_vote returns.
finish_sample(W, v, i, use_temp, o) ==
  LET W1 == [W EXCEPT !.run[v].tasks[i] = [st |-> "done", res |-> sample_vote_result(o)],
                      !.run[v].seen = Seen(@, OutcomeClass(o))]
      W2 == sem_release(W1)
  IN IF o.ok
     THEN [W2 EXCEPT !.cs = cache_set(@, Model, System, Prompt, use_temp, o.text, o.tokens, now)]
     ELSE W2

\* ---------------------------------------------------------------- first_to_ahead_by_k_voting
\* max that returns the last item with the highest count
Plurality_last(votes) ==
  LET best == {i \in 1..Len(votes) : \A j \in 1..Len(votes) : votes[j].n <= votes[i].n}
  IN votes[CHOOSE i \in best : \A j \in best : i >= j].c

\* max(state.votes.items(), key=lambda x: x[1])[0]: the first item with the
\* highest count.
Plurality(votes) ==
  LET best == {i \in 1..Len(votes) : \A j \in 1..Len(votes) : votes[j].n <= votes[i].n}
  IN votes[CHOOSE i \in best : \A j \in best : i <= j].c

\* a return without the plurality fallback
return_run_nofallback(W, v) ==
  LET r == W.run[v]
      winner == IF r.ctl.winner # None /\ r.ctl.winner[1] # <<>> THEN r.ctl.winner[1]
                ELSE <<>>
  IN [W EXCEPT !.run[v].pc = "done", !.run[v].ret = Some(winner)]

\* The return at the end of the function.
return_run(W, v) ==
  LET r == W.run[v]
      winner == IF r.ctl.winner # None /\ r.ctl.winner[1] # <<>> THEN r.ctl.winner[1]
                ELSE IF r.votes # <<>> THEN Plurality(r.votes)
                ELSE <<>>
  IN [W EXCEPT !.run[v].pc = "done", !.run[v].ret = Some(winner)]

\* a wave of batch_size attempts whatever budget remains
current_batch_size_whole(batch_size, samples_remaining) == batch_size

\* current_batch_size = min(batch_size, samples_remaining)
current_batch_size(batch_size, samples_remaining) ==
  IF batch_size <= samples_remaining THEN batch_size ELSE samples_remaining

RECURSIVE StartAll_zero(_, _, _, _)
\* a wave whose tasks sample at temperature 0
StartAll_zero(W, v, i, n) ==
  IF i > n THEN W
  ELSE StartAll_zero(start_sample(W, v, i, 0), v, i + 1, n)

RECURSIVE StartAll(_, _, _, _)
\* The tasks of a wave run, in creation order, up to their first suspension.
StartAll(W, v, i, n) ==
  IF i > n THEN W
  ELSE StartAll(start_sample(W, v, i, DefaultTemperature), v, i + 1, n)

\* The head of the while loop: launch the next wave, or leave the loop and
\* return. The tasks created start before the run is resumed.
loop_head(W, v) ==
  LET r == W.run[v]
      n == current_batch_size(batch_size_arg, r.samples_remaining)
  IN IF r.samples_remaining > 0 /\ ~r.ctl.terminated
     THEN StartAll([W EXCEPT !.run[v].pc = "wave",
                             !.run[v].batch_rounds = @ + 1,
                             !.run[v].issued = @ + n,
                             !.run[v].tasks = [i \in 1..n |-> NewTask]], v, 1, n)
     ELSE return_run(W, v)

\* a fold whose winner check gets the tally as it was before the vote
count_vote_stale(r, res, k) ==
  LET r1 == [r EXCEPT !.total_samples = @ + 1, !.samples_remaining = @ - 1]
  IN IF res.kind = "raise"
     THEN [r |-> [r1 EXCEPT !.red_flagged = @ + 1], won |-> FALSE]
     ELSE IF res.is_valid /\ res.canonical # None /\ res.canonical # Some(<<>>)
     THEN LET votes2 == VotesInc(r1.votes, res.canonical[1])
              chk == check_and_set_winner(r1.ctl, res.canonical[1], r1.votes, k)
          IN [r |-> [r1 EXCEPT !.valid_samples = @ + 1, !.votes = votes2, !.ctl = chk.ctl],
              won |-> chk.ret]
     ELSE [r |-> [r1 EXCEPT !.red_flagged = @ + 1], won |-> FALSE]

\* a fold that counts an invalid result in total_samples only
count_vote_uncounted(r, res, k) ==
  LET r1 == [r EXCEPT !.total_samples = @ + 1, !.samples_remaining = @ - 1]
  IN IF res.kind = "raise"
     THEN [r |-> r1, won |-> FALSE]
     ELSE IF res.is_valid /\ res.canonical # None /\ res.canonical # Some(<<>>)
     THEN LET votes2 == VotesInc(r1.votes, res.canonical[1])
              chk == check_and_set_winner(r1.ctl, res.canonical[1], votes2, k)
          IN [r |-> [r1 EXCEPT !.valid_samples = @ + 1, !.votes = votes2, !.ctl = chk.ctl],
              won |-> chk.ret]
     ELSE [r |-> r1, won |-> FALSE]

\* One result of a wave folded into the state, with the winner check that
\* follows a counted vote: [r, won].
count_vote(r, res, k) ==
  LET r1 == [r EXCEPT !.total_samples = @ + 1, !.samples_remaining = @ - 1]
  IN IF res.kind = "raise"
     THEN [r |-> [r1 EXCEPT !.red_flagged = @ + 1], won |-> FALSE]
     ELSE IF res.is_valid /\ res.canonical # None /\ res.canonical # Some(<<>>)
     THEN LET votes2 == VotesInc(r1.votes, res.canonical[1])
              chk == check_and_set_winner(r1.ctl, res.canonical[1], votes2, k)
          IN [r |-> [r1 EXCEPT !.valid_samples = @ + 1, !.votes = votes2, !.ctl = chk.ctl],
              won |-> chk.ret]
     ELSE [r |-> [r1 EXCEPT !.red_flagged = @ + 1], won |-> FALSE]

\* The first, deterministic sample folded; then a win returns, anything else
\* enters the wave loop with max_rounds - 1 samples remaining.
fold_first(W, v) ==
  LET r == W.run[v]
      res == r.tasks[1].res
      r1 == [r EXCEPT !.total_samples = @ + 1, !.tasks[1].st = "folded",
                      !.samples_remaining = cfg.max_rounds - 1]
  IN IF res.kind = "raise" THEN [W EXCEPT !.run[v].pc = "raised"]
     ELSE IF res.is_valid /\ res.canonical # None /\ res.canonical # Some(<<>>)
     THEN LET votes2 == VotesInc(r1.votes, res.canonical[1])
              chk == check_and_set_winner(r1.ctl, res.canonical[1], votes2, cfg.k)
              r2 == [r1 EXCEPT !.valid_samples = @ + 1, !.votes = votes2, !.ctl = chk.ctl]
          IN IF chk.ret
             THEN [W EXCEPT !.run[v] = [r2 EXCEPT !.early_terminated = TRUE, !.pc = "done",
                                                  !.samples_remaining = 0,
                                                  !.ret = Some(res.canonical[1])]]
             ELSE loop_head([W EXCEPT !.run[v] = r2], v)
     ELSE loop_head([W EXCEPT !.run[v] = [r1 EXCEPT !.red_flagged = @ + 1]], v)

\* a cancellation that reaches the tasks in their backend call only: a task
\* waiting for a permit stays in the queue
cancel_pending_inflight(W, v) ==
  LET ts == W.run[v].tasks
  IN [W EXCEPT !.run[v].tasks = [i \in 1..Len(ts) |->
                  IF ts[i].st = "inflight" THEN [ts[i] EXCEPT !.st = "cancelling"]
                  ELSE ts[i]]]

\* for p in pending: p.cancel(). A task waiting for a permit leaves the queue;
\* a task in its backend call keeps its permit until the cancellation reaches it.
cancel_pending(W, v) ==
  LET ts == W.run[v].tasks
      SelectOthers(q) == SelectSeq(q, LAMBDA id : id[1] # v)
  IN [W EXCEPT !.sem.waiters = SelectOthers(@),
               !.run[v].tasks = [i \in 1..Len(ts) |->
                  IF ts[i].st = "waiting" THEN [ts[i] EXCEPT !.st = "cancelled"]
                  ELSE IF ts[i].st = "inflight" THEN [ts[i] EXCEPT !.st = "cancelling"]
                  ELSE ts[i]]]

\* the early-termination fold without its break: a win is recorded and the
\* wave goes on being folded
fold_early_on(W, v, i) ==
  LET r == W.run[v]
      f == count_vote([r EXCEPT !.tasks[i].st = "folded"], r.tasks[i].res, cfg.k)
      W1 == [W EXCEPT !.run[v] = f.r]
  IN IF \A j \in 1..Len(f.r.tasks) : f.r.tasks[j].st = "folded"
     THEN loop_head(W1, v)
     ELSE W1

\* Early termination: one completed task of the wave folded as soon as
\* asyncio.wait hands it over; a win cancels the rest and returns, the last
\* task of the wave goes back to the head of the loop.
fold_early(W, v, i) ==
  LET r == W.run[v]
      f == count_vote([r EXCEPT !.tasks[i].st = "folded"], r.tasks[i].res, cfg.k)
      W1 == [W EXCEPT !.run[v] = f.r]
  IN IF f.won
     THEN return_run(cancel_pending([W1 EXCEPT !.run[v].early_terminated = TRUE], v), v)
     ELSE IF \A j \in 1..Len(f.r.tasks) : f.r.tasks[j].st = "folded"
     THEN loop_head(W1, v)
     ELSE W1

RECURSIVE FoldFrom(_, _, _)
\* for result in results: every result of the wave, in task order.
FoldFrom(r, i, k) ==
  IF i > Len(r.tasks) THEN r
  ELSE FoldFrom(count_vote([r EXCEPT !.tasks[i].st = "folded"], r.tasks[i].res, k).r, i + 1, k)

\* Without early termination: asyncio.gather has every result of the wave.
fold_all(W, v) ==
  loop_head([W EXCEPT !.run[v] = FoldFrom(W.run[v], 1, cfg.k)], v)

\* ---------------------------------------------------------------- the runs
RunsIdle ==
  /\ cfg = [voters |-> 0, permits |-> 1, k |-> 1, max_rounds |-> 1, early |-> TRUE,
            batch |-> BATCH_SIZE]
  /\ run = [v \in Voters |-> NewRun]
  /\ sem = [value |-> cfg.permits, waiters |-> <<>>]

\* One run alone under every configuration up to the bounds, with a semaphore
\* smaller than a wave and as large as one; two concurrent runs (the voters of
\* a multi-voter call, or two tool calls) with rounds for the first sample and
\* one full wave each. k >= 1: every caller clamps it or passes a constant.
Scenarios ==
  [voters : {1}, permits : {1, 2}, k : 1..MaxK, max_rounds : 1..MaxRounds,
   early : BOOLEAN, batch : {BATCH_SIZE}]
  \cup
  [voters : {2}, permits : {2}, k : 1..MaxK, max_rounds : 1..(BATCH_SIZE + 1),
   early : BOOLEAN, batch : {BATCH_SIZE}]

\* The runs live within one TTL window of the cache: the clock stands still.
\* ENABLE_EARLY_TERMINATION, MAX_VOTING_ROUNDS and MAX_CONCURRENT_REQUESTS are
\* read from the environment once.
Init ==
  /\ HarnessIdle
  /\ cfg \in Scenarios
  /\ run = [v \in Voters |-> NewRun]
  /\ sem = [value |-> cfg.permits, waiters |-> <<>>]
  /\ cs = NewCache
  /\ now = 0

\* A voter's run starts: the first sample at temperature 0, inline. A cache
\* hit returns without suspending, so the run goes straight on.
Begin(v) ==
  /\ run[v].pc = "start"
  /\ v <= cfg.voters
  /\ \A u \in Voters : u < v => run[u].pc # "start"
  /\ LET W1 == [Cur EXCEPT !.run[v].pc = "first", !.run[v].tasks = <<NewTask>>,
                           !.run[v].issued = 1]
         W2 == start_sample(W1, v, 1, 0)
     IN Step(IF W2.run[v].tasks[1].st = "done" THEN fold_first(W2, v) ELSE W2)
  /\ UNCHANGED <<cfg, now, hvars, clast, plast, slast>>

\* The backend answers the first sample (or fails): the run resumes.
RespondFirst(v, o) ==
  /\ run[v].pc = "first"
  /\ run[v].tasks[1].st = "inflight"
  /\ Step(fold_first(finish_sample(Cur, v, 1, 0, o), v))
  /\ UNCHANGED <<cfg, now, hvars, clast, plast, slast>>

\* The backend answers a task of the wave (or fails): the task is done.
Respond(v, i, o) ==
  /\ run[v].pc = "wave"
  /\ i \in 1..Len(run[v].tasks)
  /\ run[v].tasks[i].st = "inflight"
  /\ Step(finish_sample(Cur, v, i, DefaultTemperature, o))
  /\ UNCHANGED <<cfg, now, hvars, clast, plast, slast>>

\* asyncio.wait returns a completed task.
Fold(v, i) ==
  /\ cfg.early
  /\ run[v].pc = "wave"
  /\ i \in 1..Len(run[v].tasks)
  /\ run[v].tasks[i].st = "done"
  /\ Step(fold_early(Cur, v, i))
  /\ UNCHANGED <<cfg, now, hvars, clast, plast, slast>>

\* asyncio.gather returns the results of the whole wave.
FoldAll(v) ==
  /\ ~cfg.early
  /\ run[v].pc = "wave"
  /\ run[v].tasks # <<>>
  /\ \A i \in 1..Len(run[v].tasks) : run[v].tasks[i].st = "done"
  /\ Step(fold_all(Cur, v))
  /\ UNCHANGED <<cfg, now, hvars, clast, plast, slast>>

\* CancelledError reaches a cancelled task inside its backend call: the call
\* is abandoned and async with gives the permit back.
CancelDeliver(v, i) ==
  /\ i \in 1..Len(run[v].tasks)
  /\ run[v].tasks[i].st = "cancelling"
  /\ Step(sem_release([Cur EXCEPT !.run[v].tasks[i].st = "cancelled"]))
  /\ UNCHANGED <<cfg, now, hvars, clast, plast, slast>>

Next ==
  \/ \E v \in Voters : Begin(v)
  \/ \E v \in Voters, o \in Outcomes : RespondFirst(v, o)
  \/ \E v \in Voters, i \in 1..BATCH_SIZE, o \in Outcomes : Respond(v, i, o)
  \/ \E v \in Voters, i \in 1..BATCH_SIZE : Fold(v, i)
  \/ \E v \in Voters : FoldAll(v)
  \/ \E v \in Voters, i \in 1..BATCH_SIZE : CancelDeliver(v, i)

Spec == Init /\ [][Next]_vars

\* ---------------------------------------------------------------- runs to the end
\* One run alone, under the batch size of the configuration and under a
\* batch size of 0 (MAKER_BATCH_SIZE=0, or batch_size=0 passed by a caller).
LiveScenarios ==
  [voters : {1}, permits : {1, 2}, k : 1..MaxK, max_rounds : 1..MaxRounds,
   early : BOOLEAN, batch : {0, BATCH_SIZE}]

LInit ==
  /\ HarnessIdle
  /\ cfg \in LiveScenarios
  /\ run = [v \in Voters |-> NewRun]
  /\ sem = [value |-> cfg.permits, waiters |-> <<>>]
  /\ cs = NewCache
  /\ now = 0

\* One turn of the while loop over an empty wave: min(batch_size,
\* samples_remaining) = 0 tasks are created, asyncio.wait is not entered (or
\* gather returns at once), nothing is folded, samples_remaining is as it was
\* and the loop condition holds again. batch_rounds is counted up to MaxRounds.
Spin(v) ==
  /\ run[v].pc = "wave"
  /\ run[v].tasks = <<>>
  /\ run' = [run EXCEPT ![v].batch_rounds = IF @ < MaxRounds THEN @ + 1 ELSE @,
                        ![v].lap = 1 - @]
  /\ UNCHANGED <<cfg, sem, cs, now, hvars, clast, plast, slast>>

LNext ==
  \/ Next
  \/ \E v \in Voters : Spin(v)

\* Some coroutine can run: a run can start, a backend call can complete or
\* fail, asyncio.wait or gather can return, a cancellation can be delivered.
\* This is ENABLED <<Next>>_vars written out (BusyIsEnabled).
Busy ==
  \E v \in Voters :
    \/ v <= cfg.voters /\ run[v].pc = "start"
    \/ run[v].pc = "first" /\ run[v].tasks[1].st = "inflight"
    \/ \E i \in 1..Len(run[v].tasks) :
         \/ run[v].pc = "wave" /\ run[v].tasks[i].st = "inflight"
         \/ run[v].pc = "wave" /\ cfg.early /\ run[v].tasks[i].st = "done"
         \/ run[v].tasks[i].st = "cancelling"
    \/ /\ run[v].pc = "wave" /\ ~cfg.early /\ run[v].tasks # <<>>
       /\ \A i \in 1..Len(run[v].tasks) : run[v].tasks[i].st = "done"

\* An invariant of LInit /\ [][LNext]_vars.
BusyIsEnabled == Busy <=> ENABLED <<Next>>_vars

\* The event loop runs every coroutine that can run, and every backend call
\* completes or fails: weak fairness of the loop over empty waves and of Next,
\* the latter with its enabling condition written out as Busy.
SpecLive ==
  /\ LInit /\ [][LNext]_vars
  /\ WF_vars(\E v \in Voters : Spin(v))
  /\ ([]<>(~Busy) \/ []<><<Next>>_vars)

\* ---------------------------------------------------------------- controller harness
\* Any number of callers of one controller, in any order. The callers own the
\* votes dict and only ever add votes to it.
HInit ==
  /\ RunsIdle
  /\ cs = NewCache
  /\ now = 0
  /\ clast = NoCall
  /\ plast = NoApply
  /\ slast = NoWake
  /\ hctl = NewController
  /\ hvotes = <<>>
  /\ hk \in 1..MaxK
  /\ hlast = [op |-> "none", cand |-> None, ret |-> FALSE]

HVote(c) ==
  /\ VotesGet(hvotes, c) < MaxVotes
  /\ hvotes' = VotesInc(hvotes, c)
  /\ UNCHANGED <<hctl, hk, hlast, rvars, svars, clast, plast, slast>>

HCheck(c) ==
  LET r == check_and_set_winner(hctl, c, hvotes, hk)
  IN /\ hctl' = r.ctl
     /\ hlast' = [op |-> "check", cand |-> Some(c), ret |-> r.ret]
     /\ UNCHANGED <<hvotes, hk, rvars, svars, clast, plast, slast>>

HTerminate(w) ==
  /\ hctl' = terminate(hctl, w)
  /\ hlast' = [op |-> "terminate", cand |-> Some(w), ret |-> FALSE]
  /\ UNCHANGED <<hvotes, hk, rvars, svars, clast, plast, slast>>

HNext ==
  \/ \E c \in Cands : HVote(c)
  \/ \E c \in Cands : HCheck(c)
  \/ \E w \in Cands : HTerminate(w)

SpecCtl == HInit /\ [][HNext]_vars

\* ---------------------------------------------------------------- cache harness
\* One sequential client of the process-wide cache: it calls ResponseCache.get
\* and .set directly and create_message as a whole, while time passes.
Triples ==
  { <<Model, System, Prompt>>,
    <<Model, System \o <<":">>, Prompt>>,
    <<Model, System, <<":">> \o Prompt>>,
    <<<<"n">>, System, Prompt>> }

\* The requests the client makes: each triple at temperature 0, and one triple
\* at the temperature the callers sample with and at a temperature below 0.
Requests ==
  {[tr |-> tr, temp |-> 0] : tr \in Triples}
  \cup {[tr |-> <<Model, System, Prompt>>, temp |-> t] : t \in {DefaultTemperature, -1}}

\* The requests create_message is called with: its callers pass 0.0 or a
\* temperature above 0.
CreateRequests == {q \in Requests : q.temp >= 0}

\* What the client stores when it calls set itself.
SetOutcomes == {Resp(<<"a">>, 1)}

\* What the backend answers the client.
CacheOutcomes == {BackendError, Resp(<<"a">>, 1), Resp(<<" ">>, 1)}

HasKey(entries, key) == EntryAt(entries, key) # 0

CInit ==
  /\ RunsIdle
  /\ hctl = NewController
  /\ hvotes = <<>>
  /\ hk = 1
  /\ hlast = [op |-> "none", cand |-> None, ret |-> FALSE]
  /\ cs \in {NewCacheOf(m) : m \in 1..CACHE_MAX_SIZE}
  /\ now = 0
  /\ clast = NoCall
  /\ plast = NoApply
  /\ slast = NoWake

\* _response_cache.get(model, system, prompt, temperature); had records
\* whether the key had an entry when the call was made.
CGet(q) ==
  /\ q.temp <= 0 => cs.hits + cs.misses < MaxOps
  /\ LET g == cache_get(cs, q.tr[1], q.tr[2], q.tr[3], q.temp, now)
     IN /\ cs' = g.c
        /\ clast' = [op |-> "get", tr |-> q.tr, temp |-> q.temp, ret |-> g.ret,
                     had |-> HasKey(cs.entries, make_key(q.tr[1], q.tr[2], q.tr[3], q.temp)),
                     at |-> 0, again |-> FALSE, full |-> FALSE]
  /\ UNCHANGED <<now, sem, rvars, hvars, plast, slast>>

\* _response_cache.set(model, system, prompt, temperature, value, tokens); full
\* records whether the cache was at capacity when the call was made.
CSet(q, o) ==
  /\ o.ok
  /\ cs' = cache_set(cs, q.tr[1], q.tr[2], q.tr[3], q.temp, o.text, o.tokens, now)
  /\ clast' = [op |-> "set", tr |-> q.tr, temp |-> q.temp, ret |-> None, had |-> FALSE,
               at |-> 0, again |-> FALSE,
               full |-> /\ make_key(q.tr[1], q.tr[2], q.tr[3], q.temp) # <<>>
                        /\ Len(cs.entries) >= cs.max_size]
  /\ UNCHANGED <<now, sem, rvars, hvars, plast, slast>>

\* The call repeats the one before it: create_message at temperature 0 with
\* the triple of a create_message at temperature 0 that returned.
Repeats(q) ==
  /\ q.temp = 0
  /\ clast.op = "create" /\ clast.temp = 0 /\ clast.tr = q.tr /\ clast.ret # None

\* create_message, start to end: a hit returns at once; on a miss the backend
\* is called inside the semaphore (a free permit is taken and given back), a
\* response is stored and returned, an error is raised. ret is what the call
\* returned, None when it raised; at is when the entry behind ret was stored.
\* A backend call that takes time is a Tick followed by this step: a lookup
\* that misses now misses later too.
CCreate(q, o) ==
  /\ q.temp <= 0 => cs.hits + cs.misses < MaxOps
  /\ sem.value > 0
  /\ LET g == cache_get(cs, q.tr[1], q.tr[2], q.tr[3], q.temp, now)
         i == EntryAt(cs.entries, make_key(q.tr[1], q.tr[2], q.tr[3], q.temp))
     IN IF g.ret # None
        THEN /\ o = BackendError
             /\ cs' = g.c
             /\ clast' = [op |-> "create", tr |-> q.tr, temp |-> q.temp, ret |-> g.ret,
                          had |-> FALSE, at |-> cs.entries[i].timestamp,
                          again |-> Repeats(q), full |-> FALSE]
        ELSE /\ cs' = IF o.ok
                      THEN cache_set(g.c, q.tr[1], q.tr[2], q.tr[3], q.temp,
                                     o.text, o.tokens, now)
                      ELSE g.c
             /\ clast' = [op |-> "create", tr |-> q.tr, temp |-> q.temp,
                          ret |-> IF o.ok THEN Some([text |-> o.text, tokens |-> o.tokens])
                                  ELSE None,
                          had |-> FALSE, at |-> IF o.ok THEN now ELSE 0,
                          again |-> Repeats(q), full |-> FALSE]
  /\ UNCHANGED <<now, sem, rvars, hvars, plast, slast>>

Tick ==
  /\ now < MaxTime
  /\ now' = now + 1
  /\ UNCHANGED <<cs, clast, sem, rvars, hvars, plast, slast>>

CNext ==
  \/ \E q \in Requests : CGet(q)
  \/ \E q \in Requests, o \in SetOutcomes : CSet(q, o)
  \/ \E q \in CreateRequests, o \in CacheOutcomes : CCreate(q, o)
  \/ Tick

SpecCache == CInit /\ [][CNext]_vars

\* ---------------------------------------------------------------- pure functions
\* The texts of up to MaxLen symbols over whitespace and a letter.
RECURSIVE TextsOfLen(_)
TextsOfLen(n) ==
  IF n = 0 THEN {<<>>}
  ELSE {Append(t, x) : t \in TextsOfLen(n - 1), x \in {" ", "a"}}

Texts == UNION {TextsOfLen(n) : n \in 0..MaxLen}

\* A pure function is applied to arguments chosen at the start.
PInit ==
  /\ RunsIdle
  /\ hctl = NewController
  /\ hvotes = <<>>
  /\ hk = 1
  /\ hlast = [op |-> "none", cand |-> None, ret |-> FALSE]
  /\ cs = NewCache
  /\ now = 0
  /\ clast = NoCall
  /\ slast = NoWake
  /\ plast \in [fn : {"none"}, text : Texts, tokens : 0..(MAX_TOKENS_THRESHOLD + 1),
                max : 0..MAX_TOKENS_THRESHOLD, out : {None}]

\* check_red_flags(response, num_tokens, max_tokens)
PCheckRedFlags ==
  /\ plast.fn = "none"
  /\ plast' = [plast EXCEPT !.fn = "check_red_flags",
                            !.out = Some(check_red_flags(plast.text, plast.tokens, plast.max))]
  /\ UNCHANGED <<hvars, rvars, svars, clast, slast>>

PNext ==
  \/ PCheckRedFlags

SpecPure == PInit /\ [][PNext]_vars

\* ---------------------------------------------------------------- claims
\* The margin condition as the specification words it: the candidate's count
\* is at least k above the count of every other candidate (and at least k).
C1_Threshold(c, votes, k) ==
  LET mine == {votes[i].n : i \in {j \in 1..Len(votes) : votes[j].c = c}}
      cnt == IF mine = {} THEN 0 ELSE CHOOSE n \in mine : TRUE
  IN /\ cnt >= k
     /\ \A i \in 1..Len(votes) : votes[i].c # c => cnt >= k + votes[i].n

\* C1: on a controller that is not terminated, check_and_set_winner(c, tally, k)
\* returns true iff tally[c] >= k + max(tally[o], o # c, default 0); on true it
\* sets winner = c and terminated; on false it changes neither.
C1_MarginIff ==
  [][\A c \in Cands :
       (~hctl.terminated /\ HCheck(c)) =>
         /\ hlast'.ret <=> C1_Threshold(c, hvotes, hk)
         /\ hlast'.ret => hctl' = [winner |-> Some(c), terminated |-> TRUE]
         /\ ~hlast'.ret => hctl' = hctl]_vars

\* C1 witness: a margin check that succeeded against a rival with votes.
C1_Witness ==
  /\ hlast.op = "check" /\ hlast.ret
  /\ hctl.terminated /\ hctl.winner = hlast.cand
  /\ Len(hvotes) = 2
  /\ \A i \in 1..2 : hvotes[i].n >= 1

\* C2: for one controller, exactly one call ever turns terminated from false
\* to true and sets the winner; every later call is a no-op: a later
\* check_and_set_winner returns false and no later call changes the winner.
C2_ExactlyOneSetter ==
  [][hctl.terminated =>
       /\ hctl' = hctl
       /\ (\E c \in Cands : HCheck(c)) => ~hlast'.ret]_vars

\* C3: once terminated is true it stays true, the winner is a non-empty
\* string, and the winner never changes afterwards, whatever is called next.
C3_TerminatedIsFinal ==
  [][/\ hctl.terminated => (hctl'.terminated /\ hctl'.winner = hctl.winner)
     /\ hctl'.terminated => (hctl'.winner # None /\ hctl'.winner # Some(<<>>))]_vars

\* The sample_vote calls that hold a permit: in their backend call, or
\* cancelled and not yet out of it.
InFlight ==
  {id \in Voters \X (1..BATCH_SIZE) :
     /\ id[2] <= Len(run[id[1]].tasks)
     /\ run[id[1]].tasks[id[2]].st \in {"inflight", "cancelling"}}

\* C4: in a run with k = 1 the first valid sample the run counts is declared
\* winner and returned, and the run samples no further after it: it launches
\* no wave and none of its attempts enters a backend call.
C4_K1FirstValidWins ==
  [][\A v \in Voters :
       cfg.k = 1 =>
         /\ (run[v].valid_samples = 0 /\ run'[v].valid_samples >= 1) =>
              /\ run'[v].pc = "done"
              /\ run'[v].ctl = [winner |-> Some(run'[v].votes[1].c), terminated |-> TRUE]
              /\ run'[v].ret = Some(run'[v].votes[1].c)
         /\ run[v].valid_samples >= 1 =>
              /\ run'[v].pc = "done" /\ run'[v].ret = run[v].ret
              /\ run'[v].batch_rounds = run[v].batch_rounds
              /\ run'[v].issued = run[v].issued
              /\ \A i \in 1..Len(run'[v].tasks) :
                   run'[v].tasks[i].st = "inflight" => run[v].tasks[i].st = "inflight"]_vars

\* C4 witness: with k = 1 an invalid first sample, then a wave whose first
\* valid sample won while another attempt of the wave was cancelled.
C4_Witness ==
  \E v \in Voters :
    /\ cfg.k = 1 /\ run[v].pc = "done"
    /\ run[v].red_flagged >= 1 /\ run[v].valid_samples = 1
    /\ run[v].ret = Some(run[v].votes[1].c)
    /\ \E i \in 1..Len(run[v].tasks) : run[v].tasks[i].st \in {"cancelled", "cancelling"}

\* C5: if every sample attempt of a run is red-flagged or fails with a backend
\* error, the run returns winner = "" with valid_samples = 0 and an empty tally.
C5_TotalFailure ==
  \A v \in Voters :
    (run[v].pc = "done" /\ run[v].seen \in {"error", "flagged", "both"}) =>
      /\ run[v].ret = Some(<<>>)
      /\ run[v].valid_samples = 0
      /\ run[v].votes = <<>>

\* C5 witness: a run that used its whole budget on red-flagged and failed
\* attempts and returned.
C5_Witness ==
  \E v \in Voters :
    /\ run[v].pc = "done" /\ run[v].seen = "both"
    /\ run[v].total_samples = cfg.max_rounds /\ cfg.max_rounds >= 3

\* C6: a run never raises to its caller: a failed sampler call counts as an
\* invalid sample, the run returns a (winner, state) pair, and no winner is
\* the empty string.
C6_NeverRaises ==
  \A v \in Voters :
    /\ run[v].pc # "raised"
    /\ run[v].pc = "done" =>
         /\ run[v].ret # None
         /\ run[v].valid_samples = 0 => run[v].ret = Some(<<>>)
    /\ run[v].seen \in {"error", "flagged", "both"} =>
         run[v].red_flagged = run[v].total_samples

\* C6 witness: a run all of whose sampler calls failed, in the first sample
\* and in a wave, has returned the empty winner.
C6_Witness ==
  \E v \in Voters :
    /\ run[v].pc = "done" /\ run[v].seen = "error"
    /\ run[v].batch_rounds >= 1
    /\ run[v].ret = Some(<<>>)

C8_ConcurrencyBound ==
  Cardinality(InFlight) <= MAX_CONCURRENT_REQUESTS

\* C8 witness: two runs each with a call in the backend, every permit taken
\* and a further call queued for one.
C8_Witness ==
  /\ Cardinality(InFlight) = MAX_CONCURRENT_REQUESTS
  /\ sem.waiters # <<>>
  /\ \A v \in Voters : \E id \in InFlight : id[1] = v

\* C9: two consecutive create_message calls with the same (model, system,
\* prompt) at temperature 0, the second made while the entry behind the first
\* call's result is no older than the TTL: the second call returns exactly
\* the (text, tokens) of the first and adds one to hits (and nothing to
\* misses). A create_message at temperature > 0 never produces a hit: it
\* leaves the cache and its counters as they are and returns what the backend
\* answered.
C9_CacheRoundTrip ==
  [][\A q \in CreateRequests, o \in CacheOutcomes :
       (clast'.op = "create" /\ clast'.tr = q.tr /\ clast'.temp = q.temp /\ CCreate(q, o)) =>
         /\ (Repeats(q) /\ now - clast.at <= CACHE_TTL_SECONDS) =>
              /\ clast'.ret = clast.ret
              /\ cs'.hits = cs.hits + 1
              /\ cs'.misses = cs.misses
         /\ q.temp > 0 =>
              /\ cs' = cs
              /\ clast'.ret = IF o.ok THEN Some([text |-> o.text, tokens |-> o.tokens])
                              ELSE None]_vars

\* A repeated call made later than the entry was stored was served from it.
C9_Witness ==
  /\ clast.op = "create" /\ clast.again
  /\ clast.ret # None
  /\ clast.at < now
  /\ cs.hits >= 1

\* C10: ResponseCache.get of a key whose entry is older than the TTL returns
\* None, adds one to misses and nothing to hits, and deletes that entry and no
\* other.
C10_ExpiredGetIsMiss ==
  [][\A q \in Requests :
       LET key == make_key(q.tr[1], q.tr[2], q.tr[3], q.temp)
           i == EntryAt(cs.entries, key)
       IN (/\ clast'.op = "get" /\ clast'.tr = q.tr /\ clast'.temp = q.temp
           /\ CGet(q)
           /\ i # 0
           /\ now - cs.entries[i].timestamp > CACHE_TTL_SECONDS) =>
            /\ clast'.ret = None
            /\ cs'.misses = cs.misses + 1
            /\ cs'.hits = cs.hits
            /\ cs'.entries = SelectSeq(cs.entries, LAMBDA e : e.key # key)]_vars

\* A get missed on a key that had an entry, and another entry is still there.
C10_Witness ==
  /\ clast.op = "get" /\ clast.temp = 0
  /\ clast.had /\ clast.ret = None
  /\ cs.entries # <<>>

\* C12: check_red_flags(text, tokens, threshold) is invalid iff tokens >
\* threshold or the text is all whitespace (empty after trimming); a valid
\* result carries the text unchanged, so a text that is not blank with
\* tokens = threshold is valid and returned as it is.
C12_RedFlagsIff ==
  (plast.fn = "check_red_flags") =>
    LET r == plast.out[1]
        blank == \A i \in 1..Len(plast.text) : plast.text[i] = " "
    IN /\ ~r.is_valid <=> (plast.tokens > plast.max \/ blank)
       /\ r.is_valid => r.content = plast.text

\* A text with whitespace around a letter and exactly threshold tokens passed
\* and came back unchanged.
C12_Witness ==
  /\ plast.fn = "check_red_flags"
  /\ plast.tokens = plast.max /\ plast.max = MAX_TOKENS_THRESHOLD
  /\ plast.text = <<" ", "a">>
  /\ plast.out[1].is_valid /\ plast.out[1].content = plast.text

C17_CapacityBound ==
  Len(cs.entries) <= cs.max_size

\* C14: every cached entry passes the red-flag check: no response that is
\* blank or longer than the max-tokens threshold is stored in the cache.
C14_OnlyValidCached ==
  \A i \in 1..Len(cs.entries) :
    check_red_flags(cs.entries[i].value, cs.entries[i].tokens, MAX_TOKENS_THRESHOLD).is_valid

\* C13: with early termination enabled, once the controller of a run is
\* terminated, total_samples, valid_samples, red_flagged and the tally of
\* that run never change again.
C13_FrozenAfterTermination ==
  [][\A v \in Voters :
       (cfg.early /\ run[v].ctl.terminated) =>
         /\ run'[v].total_samples = run[v].total_samples
         /\ run'[v].valid_samples = run[v].valid_samples
         /\ run'[v].red_flagged = run[v].red_flagged
         /\ run'[v].votes = run[v].votes]_vars

\* A run that ended on a margin winner while another attempt of the wave had
\* completed: that result was never folded.
C13_Witness ==
  \E v \in Voters :
    /\ cfg.early /\ run[v].pc = "done" /\ run[v].ctl.terminated
    /\ \E i \in 1..Len(run[v].tasks) : run[v].tasks[i].st = "done"
    /\ run[v].total_samples < run[v].issued

\* C15: a run that ends without a margin winner and with at least one valid
\* vote returns a candidate whose count is >= every other count, and of the
\* candidates with the highest count the one that entered the tally first.
C15_PluralityFallback ==
  \A v \in Voters :
    (run[v].pc = "done" /\ ~run[v].ctl.terminated /\ run[v].valid_samples >= 1) =>
      \E i \in 1..Len(run[v].votes) :
        /\ run[v].ret = Some(run[v].votes[i].c)
        /\ \A j \in 1..Len(run[v].votes) : run[v].votes[j].n <= run[v].votes[i].n
        /\ \A j \in 1..(i - 1) : run[v].votes[j].n < run[v].votes[i].n

\* The budget ran out on a tie of two candidates and the first one counted
\* was returned.
C15_Witness ==
  \E v \in Voters :
    /\ run[v].pc = "done" /\ ~run[v].ctl.terminated
    /\ Len(run[v].votes) = 2
    /\ run[v].votes[1].n = run[v].votes[2].n
    /\ run[v].ret = Some(run[v].votes[1].c)

\* C16: every run that has started eventually returns, whatever k, max_rounds
\* and batch_size are, given that every backend call completes or fails.
C16_EveryRunReturns ==
  <>(\A v \in Voters : v <= cfg.voters => run[v].pc = "done")

C19_NoUndetectedMargin ==
  \A v \in Voters :
    ~run[v].ctl.terminated =>
      \A i \in 1..Len(run[v].votes) :
        ~C1_Threshold(run[v].votes[i].c, run[v].votes, cfg.k)

\* Three valid votes over two candidates were counted and checked, none
\* reaching the margin.
C19_Witness ==
  \E v \in Voters :
    /\ ~run[v].ctl.terminated
    /\ run[v].valid_samples = 3 /\ Len(run[v].votes) = 2

\* C20: the first sample_vote call of a run is at temperature 0 and no other
\* is; every wave attempt is at the caller's temperature, and none is launched
\* before the first sample was folded.
C20_OneZeroSampleFirst ==
  \A v \in Voters :
    LET t == run[v].temps
    IN /\ run[v].pc # "start" => (t # <<>> /\ t[1] = 0)
       /\ Len(t) = run[v].issued
       /\ \A i \in 2..Len(t) : t[i] = DefaultTemperature /\ t[i] # 0
       /\ Len(t) > 1 => (run[v].total_samples >= 1 /\ run[v].batch_rounds >= 1)

\* A wave in flight after the first sample: three calls made, one at 0.
C20_Witness ==
  \E v \in Voters :
    /\ run[v].pc = "wave" /\ run[v].batch_rounds = 1
    /\ run[v].temps = <<0, DefaultTemperature, DefaultTemperature>>
    /\ run[v].total_samples = 1

\* ---------------------------------------------------------------- folds
\* is_valid and canonical, as the folds test a result.
CountsAsVote(res) ==
  res.kind = "ret" /\ res.is_valid /\ res.canonical # None /\ res.canonical # Some(<<>>)

NotVotes(ts) == {i \in 1..Len(ts) : ~CountsAsVote(ts[i].res)}

\* C22: every folded attempt that ended in a backend error, a red flag or an
\* empty canonical form adds one to total_samples and one to red_flagged and
\* leaves valid_samples, the tally and the controller as they were: the first
\* sample, a task folded under early termination, and the results of a wave
\* folded without it (where a wave of invalid results only changes nothing
\* else, and every invalid result of a mixed wave is one more red flag).
C22_InvalidFoldsAlike ==
  [][\A v \in Voters :
       /\ \A o \in Outcomes :
            (run[v].pc = "first" /\ run'[v].pc # "first" /\ ~CountsAsVote(sample_vote_result(o))
             /\ RespondFirst(v, o))
            => /\ run'[v].total_samples = run[v].total_samples + 1
               /\ run'[v].red_flagged = run[v].red_flagged + 1
               /\ run'[v].valid_samples = run[v].valid_samples
               /\ run'[v].votes = run[v].votes
               /\ run'[v].ctl = run[v].ctl
       /\ \A i \in 1..BATCH_SIZE :
            (run[v].pc = "wave" /\ cfg.early /\ i <= Len(run[v].tasks)
             /\ ~CountsAsVote(run[v].tasks[i].res) /\ Fold(v, i))
            => /\ run'[v].total_samples = run[v].total_samples + 1
               /\ run'[v].red_flagged = run[v].red_flagged + 1
               /\ run'[v].valid_samples = run[v].valid_samples
               /\ run'[v].votes = run[v].votes
               /\ run'[v].ctl = run[v].ctl
       /\ (run[v].pc = "wave" /\ ~cfg.early /\ FoldAll(v))
            => LET ts == run[v].tasks
                   bad == Cardinality(NotVotes(ts))
               IN /\ run'[v].total_samples = run[v].total_samples + Len(ts)
                  /\ run'[v].red_flagged = run[v].red_flagged + bad
                  /\ run'[v].valid_samples = run[v].valid_samples + (Len(ts) - bad)
                  /\ bad = Len(ts) => /\ run'[v].votes = run[v].votes
                                      /\ run'[v].ctl = run[v].ctl]_vars

\* A run has folded a backend error and a red flag, and nothing else.
C22_Witness ==
  \E v \in Voters :
    /\ run[v].seen = "both"
    /\ run[v].red_flagged >= 2
    /\ run[v].total_samples = run[v].red_flagged
    /\ run[v].valid_samples = 0 /\ run[v].votes = <<>> /\ ~run[v].ctl.terminated

\* ---------------------------------------------------------------- returned statistics
RECURSIVE SumVotes(_)
\* sum(state.votes.values())
SumVotes(votes) == IF votes = <<>> THEN 0 ELSE Head(votes).n + SumVotes(Tail(votes))

\* C28: in every state between the steps of a run, so after every fold and at
\* return, in both modes: total_samples = valid_samples + red_flagged and
\* valid_samples = the sum of the counts of the tally.
C28_CountersAddUp ==
  \A v \in Voters :
    /\ run[v].total_samples = run[v].valid_samples + run[v].red_flagged
    /\ run[v].valid_samples = SumVotes(run[v].votes)

\* A run has returned after valid votes for two candidates and a red flag.
C28_Witness ==
  \E v \in Voters :
    /\ run[v].pc = "done"
    /\ Len(run[v].votes) = 2
    /\ run[v].red_flagged >= 1
    /\ run[v].total_samples = MaxRounds

\* C27: a run returns the empty winner iff valid_samples = 0; with a valid vote
\* counted the returned winner is a non-empty key of the returned tally; every
\* key of a tally is a non-empty string with count >= 1.
C27_EmptyWinnerIffNoValid ==
  \A v \in Voters :
    /\ \A i \in 1..Len(run[v].votes) : run[v].votes[i].c # <<>> /\ run[v].votes[i].n >= 1
    /\ run[v].pc = "done" =>
         /\ run[v].ret # None
         /\ run[v].ret[1] = <<>> <=> run[v].valid_samples = 0
         /\ run[v].valid_samples > 0 => VotesGet(run[v].votes, run[v].ret[1]) >= 1

\* A run has returned by the plurality fallback a candidate of its tally.
C27_Witness ==
  \E v \in Voters :
    /\ run[v].pc = "done" /\ ~run[v].ctl.terminated
    /\ run[v].valid_samples >= 2 /\ run[v].red_flagged >= 1
    /\ run[v].ret # None /\ run[v].ret[1] # <<>>
    /\ VotesGet(run[v].votes, run[v].ret[1]) >= 1

\* C29: a run that returns a winner set by the margin check returns a tally in
\* which the winner's count is >= k + the count of every other candidate, in
\* both modes.
C29_ReturnedTallyHasMargin ==
  \A v \in Voters :
    (run[v].pc = "done" /\ run[v].ctl.terminated) =>
      \A i \in 1..Len(run[v].votes) :
        run[v].votes[i].c # run[v].ret[1] =>
          VotesGet(run[v].votes, run[v].ret[1]) >= cfg.k + run[v].votes[i].n

\* C30: at return early_terminated is true iff the controller is terminated
\* (the returned winner was set by the margin check).
C30_EarlyTerminatedIffMargin ==
  \A v \in Voters :
    run[v].pc = "done" => (run[v].early_terminated <=> run[v].ctl.terminated)

\* ---------------------------------------------------------------- one completion at a time
RECURSIVE OneByOne(_, _, _, _)
\* The tally and the controller after the results are taken one at a time, in
\* order: a vote is counted, then the winner check gets the tally with it.
OneByOne(votes, ctl, results, k) ==
  IF results = <<>> THEN [votes |-> votes, ctl |-> ctl]
  ELSE LET res == Head(results)
       IN IF CountsAsVote(res)
          THEN LET votes2 == VotesInc(votes, res.canonical[1])
               IN OneByOne(votes2, check_and_set_winner(ctl, res.canonical[1], votes2, k).ctl,
                           Tail(results), k)
          ELSE OneByOne(votes, ctl, Tail(results), k)

\* The step folded exactly these results of run v, one at a time.
FoldedOneByOne(v, results) ==
  LET s == OneByOne(run[v].votes, run[v].ctl, results, cfg.k)
  IN /\ run'[v].total_samples = run[v].total_samples + Len(results)
     /\ run'[v].votes = s.votes
     /\ run'[v].ctl = s.ctl

\* C24: within a run completions are folded and checked one at a time: a step
\* that folds one completion (the first sample, a task under early
\* termination) counts its vote and checks the winner on the tally with that
\* vote; the results of a wave without early termination are taken in order,
\* each check on the tally of the votes folded so far; and no step that folds
\* nothing (a backend call ending, a cancellation arriving, another run's step)
\* touches the tally or the controller.
C24_FoldOneAtATime ==
  [][\A v \in Voters :
       /\ \A o \in Outcomes :
            (run[v].pc = "first" /\ run'[v].pc # "first" /\ RespondFirst(v, o))
              => FoldedOneByOne(v, <<sample_vote_result(o)>>)
       /\ \A i \in 1..BATCH_SIZE :
            (run[v].pc = "wave" /\ cfg.early /\ i <= Len(run[v].tasks) /\ Fold(v, i))
              => FoldedOneByOne(v, <<run[v].tasks[i].res>>)
       /\ (run[v].pc = "wave" /\ ~cfg.early /\ FoldAll(v))
              => FoldedOneByOne(v, [i \in 1..Len(run[v].tasks) |-> run[v].tasks[i].res])
       /\ run'[v].total_samples = run[v].total_samples
              => run'[v].votes = run[v].votes /\ run'[v].ctl = run[v].ctl]_vars

\* Without early termination a wave was folded in which the first vote set the
\* winner and a vote for another candidate was counted after it.
C24_Witness ==
  \E v \in Voters :
    /\ ~cfg.early /\ run[v].pc = "done" /\ run[v].ctl.terminated
    /\ Len(run[v].votes) = 2
    /\ run[v].ctl.winner = Some(run[v].votes[1].c)
    /\ run[v].votes[1].n = run[v].votes[2].n

\* ---------------------------------------------------------------- voters
\* What a voter's VotingState and VotingController hold, and what it returned.
StatsOf(r) ==
  <<r.votes, r.total_samples, r.valid_samples, r.red_flagged, r.batch_rounds,
    r.early_terminated, r.ctl, r.ret>>

\* The step is a step of voter v's run.
StepOf(v) ==
  \/ Begin(v)
  \/ \E o \in Outcomes : RespondFirst(v, o)
  \/ \E i \in 1..BATCH_SIZE, o \in Outcomes : Respond(v, i, o)
  \/ \E i \in 1..BATCH_SIZE : Fold(v, i)
  \/ FoldAll(v)
  \/ \E i \in 1..BATCH_SIZE : CancelDeliver(v, i)

\* C25: a call with N voters returns N results, one per voter (once every
\* voter's run is over, exactly the N voters have a returned winner and
\* statistics), and no step of one voter's run changes the tally, the counters,
\* the winner or the terminated flag of another voter.
C25_VotersIndependent ==
  [][/\ \A u \in Voters, v \in Voters :
          (u # v /\ StatsOf(run'[u]) # StatsOf(run[u])) => ~StepOf(v)
     /\ (\A v \in Voters : v <= cfg.voters => run'[v].pc = "done")
          => {v \in Voters : run'[v].ret # None} = 1..cfg.voters]_vars

\* Two voters of one call have returned, with different winners and tallies.
C25_Witness ==
  /\ cfg.voters = 2
  /\ \A v \in Voters : run[v].pc = "done" /\ run[v].ret # None
  /\ run[1].ret # run[2].ret
  /\ run[1].votes # run[2].votes
  /\ run[1].ctl.terminated /\ ~run[2].ctl.terminated

\* ---------------------------------------------------------------- eviction
\* The entries of a cache as a set.
EntrySet(entries) == {entries[i] : i \in 1..Len(entries)}

\* R is a set of positions a set call at time t may remove from entries E of a
\* cache of capacity max_size: none below capacity; at capacity the expired
\* ones, and if the rest still fills the cache, floor(n/2) of the n remaining,
\* none of them newer than one that stays.
MayRemove(E, max_size, t, R) ==
  LET Exp == {i \in 1..Len(E) : t - E[i].timestamp > CACHE_TTL_SECONDS}
      Rest == (1..Len(E)) \ Exp
      n == Cardinality(Rest)
  IN IF Len(E) < max_size THEN R = {}
     ELSE IF n < max_size THEN R = Exp
     ELSE /\ Exp \subseteq R
          /\ Cardinality(R \ Exp) = n \div 2
          /\ \A h \in R \ Exp, j \in Rest \ R : E[h].timestamp <= E[j].timestamp

\* C23: a set (with a key) on a cache at capacity removes the TTL-expired
\* entries and, only if the cache is still at capacity, the oldest floor(n/2) of
\* the n remaining, never one newer than one it keeps; below capacity it
\* removes nothing; in every case the new entry is stored afterwards, once.
C23_EvictionOnSet ==
  [][\A q \in Requests, o \in SetOutcomes :
       (clast'.op = "set" /\ clast'.tr = q.tr /\ clast'.temp = q.temp /\ q.temp <= 0
        /\ CSet(q, o))
       => LET E == cs.entries
              key == make_key(q.tr[1], q.tr[2], q.tr[3], q.temp)
              new == [key |-> key, value |-> o.text, tokens |-> o.tokens, timestamp |-> now]
          IN /\ \E R \in SUBSET (1..Len(E)) :
                  /\ MayRemove(E, cs.max_size, now, R)
                  /\ EntrySet(cs'.entries) =
                       {E[i] : i \in {j \in (1..Len(E)) \ R : E[j].key # key}} \cup {new}
             /\ Cardinality({cs'.entries[i].key : i \in 1..Len(cs'.entries)})
                  = Len(cs'.entries)]_vars

\* A set on a cache of capacity 2 that held two live entries has dropped the
\* older one and kept the newer one next to the new entry.
C23_Witness ==
  /\ clast.op = "set" /\ clast.full
  /\ cs.max_size = 2 /\ Len(cs.entries) = 2
  /\ now = CACHE_TTL_SECONDS
  /\ cs.entries[1].timestamp = now /\ cs.entries[2].timestamp = now
  /\ cs.entries[2].key = make_key(clast.tr[1], clast.tr[2], clast.tr[3], clast.temp)

\* ---------------------------------------------------------------- semaphore harness
\* The callers of create_message that reach the semaphore, for ever: each
\* voter has BATCH_SIZE sample_vote tasks at a time, and a task that ended is
\* followed by the next one (the next wave, the next tool call).
SInit ==
  /\ HarnessIdle
  /\ cfg \in [voters : {2}, permits : {1, 2}, k : {1}, max_rounds : {1}, early : {TRUE},
              batch : {BATCH_SIZE}]
  /\ run = [v \in Voters |-> [NewRun EXCEPT !.tasks = [i \in 1..BATCH_SIZE |-> NewTask]]]
  /\ sem = [value |-> cfg.permits, waiters |-> <<>>]
  /\ cs = NewCache
  /\ now = 0

\* async with get_semaphore(), entry, by a task that makes its call.
Enter(v, i) ==
  /\ run[v].tasks[i].st \in {"new", "done", "cancelled"}
  /\ Step(sem_acquire(Cur, v, i))
  /\ slast' = [op |-> "enter", id |-> <<v, i>>, woke |-> <<>>]
  /\ UNCHANGED <<cfg, now, hvars, clast, plast>>

\* The backend call of an admitted task returns or raises: async with exit.
\* woke is the waiter the permit went to.
Leave(v, i) ==
  /\ run[v].tasks[i].st = "inflight"
  /\ Step(sem_release([Cur EXCEPT !.run[v].tasks[i].st = "done"]))
  /\ slast' = [op |-> "leave", id |-> <<v, i>>,
               woke |-> IF sem.waiters # <<>> THEN Head(sem.waiters) ELSE <<>>]
  /\ UNCHANGED <<cfg, now, hvars, clast, plast>>

\* A run that terminated cancels its pending tasks.
CancelOwn(v) ==
  /\ \E i \in 1..BATCH_SIZE : run[v].tasks[i].st \in {"waiting", "inflight"}
  /\ Step(cancel_pending(Cur, v))
  /\ slast' = [op |-> "cancel", id |-> <<v, 0>>, woke |-> <<>>]
  /\ UNCHANGED <<cfg, now, hvars, clast, plast>>

SNext ==
  \/ \E v \in Voters, i \in 1..BATCH_SIZE : Enter(v, i)
  \/ \E v \in Voters, i \in 1..BATCH_SIZE : Leave(v, i)
  \/ \E v \in Voters : CancelOwn(v)
  \/ \E v \in Voters, i \in 1..BATCH_SIZE : CancelDeliver(v, i)

\* Every admitted backend call completes or fails, and a cancellation reaches
\* its task; nothing is assumed about when callers call or runs cancel.
SpecSem ==
  /\ SInit /\ [][SNext]_vars
  /\ \A v \in Voters, i \in 1..BATCH_SIZE :
       WF_vars(Leave(v, i)) /\ WF_vars(CancelDeliver(v, i))

\* C26: provided every admitted backend call completes, every call waiting for
\* a permit is admitted, unless its own run cancels it, while the other
\* callers keep calling.
C26_NoStarvation ==
  \A v \in Voters, i \in 1..BATCH_SIZE :
    (run[v].tasks[i].st = "waiting") ~> (run[v].tasks[i].st \in {"inflight", "cancelled"})

\* A call of one voter has ended and its permit went to the call of the other
\* voter at the head of the queue, with another call still waiting behind it.
C26_Witness ==
  /\ slast.op = "leave" /\ slast.woke # <<>>
  /\ slast.woke[1] # slast.id[1]
  /\ run[slast.woke[1]].tasks[slast.woke[2]].st = "inflight"
  /\ Len(sem.waiters) >= 2

\* ---------------------------------------------------------------- wide waves
\* A wave wider than the semaphore and than BATCH_SIZE: one run whose budget
\* after the first sample is one wave of WideBatch attempts, so that a
\* completed attempt can be folded while another is in its backend call and a
\* third still waits for a permit.
WideBatch == BATCH_SIZE + 1

WInit ==
  /\ HarnessIdle
  /\ cfg \in [voters : {1}, permits : {1, 2}, k : 1..MaxK, max_rounds : {WideBatch + 1},
              early : BOOLEAN, batch : {WideBatch}]
  /\ run = [v \in Voters |-> NewRun]
  /\ sem = [value |-> cfg.permits, waiters |-> <<>>]
  /\ cs = NewCache
  /\ now = 0

WNext ==
  \/ \E v \in Voters : Begin(v)
  \/ \E v \in Voters, o \in Outcomes : RespondFirst(v, o)
  \/ \E v \in Voters, i \in 1..WideBatch, o \in Outcomes : Respond(v, i, o)
  \/ \E v \in Voters, i \in 1..WideBatch : Fold(v, i)
  \/ \E v \in Voters : FoldAll(v)
  \/ \E v \in Voters, i \in 1..WideBatch : CancelDeliver(v, i)

SpecWide == WInit /\ [][WNext]_vars

\* C21: under early termination, from the step that terminates a run's
\* controller on, the run starts no backend call: none of its tasks is or
\* becomes created, waiting for a permit or in a backend call without a
\* cancellation on its way, none is in the semaphore's queue; the step that
\* terminates the controller in a wave takes the waiting tasks out of the queue
\* (cancelled, never admitted) and cancels the tasks in their backend call;
\* and no sample_vote call is issued and no wave launched after it.
C21_NoCallAfterTermination ==
  [][\A v \in Voters :
       (cfg.early /\ run'[v].ctl.terminated) =>
         /\ \A i \in 1..Len(run'[v].tasks) :
              run'[v].tasks[i].st \notin {"new", "waiting", "inflight"}
         /\ \A j \in 1..Len(sem'.waiters) : sem'.waiters[j][1] # v
         /\ (run[v].ctl.terminated \/ run[v].pc = "wave") =>
              /\ run'[v].issued = run[v].issued
              /\ run'[v].temps = run[v].temps
              /\ run'[v].batch_rounds = run[v].batch_rounds
              /\ Len(run'[v].tasks) = Len(run[v].tasks)
              /\ \A i \in 1..Len(run[v].tasks) :
                   /\ run[v].tasks[i].st = "waiting" => run'[v].tasks[i].st = "cancelled"
                   /\ run[v].tasks[i].st = "inflight" => run'[v].tasks[i].st = "cancelling"]_vars

\* With one permit, a run has terminated on the first completion of a wave
\* while the second attempt was in its backend call and the third waited for
\* the permit: the third is cancelled without having been admitted.
C21_Witness ==
  \E v \in Voters :
    /\ cfg.early /\ cfg.permits = 1 /\ run[v].ctl.terminated /\ run[v].pc = "done"
    /\ Len(run[v].tasks) = WideBatch
    /\ run[v].tasks[1].st = "folded"
    /\ run[v].tasks[2].st = "cancelling"
    /\ run[v].tasks[3].st = "cancelled"
    /\ sem.value = 0 /\ sem.waiters = <<>>

\* ---------------------------------------------------------------- permits
\* C31: in every state the permits held (MAX_CONCURRENT_REQUESTS minus the
\* semaphore's value) are as many as the backend calls in flight, those with a
\* cancellation on its way included: a call that succeeded, failed or was
\* cancelled holds none, a waiting or cancelled task holds none, the queue
\* holds exactly the waiting tasks; and once every run has returned and no
\* call is in flight all MAX_CONCURRENT_REQUESTS permits are free.
C31_NoPermitLeak ==
  /\ sem.value >= 0
  /\ MAX_CONCURRENT_REQUESTS - sem.value = Cardinality(InFlight)
  /\ \A v \in Voters, i \in 1..BATCH_SIZE :
       (i <= Len(run[v].tasks) /\ run[v].tasks[i].st = "waiting")
         <=> \E j \in 1..Len(sem.waiters) : sem.waiters[j] = <<v, i>>
  /\ ((\A v \in Voters : run[v].pc \in {"start", "done"}) /\ InFlight = {})
       => sem.value = MAX_CONCURRENT_REQUESTS /\ sem.waiters = <<>>

\* Two runs have returned, one after a failed call and one by cancelling a
\* call in flight whose cancellation has arrived: every permit is back.
C31_Witness ==
  /\ cfg.voters = 2
  /\ \A v \in Voters : run[v].pc = "done"
  /\ \E v \in Voters : run[v].seen \in {"error", "both"}
  /\ \E v \in Voters, i \in 1..BATCH_SIZE :
       i <= Len(run[v].tasks) /\ run[v].tasks[i].st = "cancelled"
  /\ InFlight = {}
  /\ sem.value = MAX_CONCURRENT_REQUESTS

\* ---------------------------------------------------------------- cache keys
\* C32: a hit for (model, system, prompt) at temperature 0 returns only a value
\* stored by a set with the identical triple. On a get that hits right after a
\* set under the same key, the value returned is the one that set stored: the
\* set had the triple of the get.
C32_HitOnlyOwnTriple ==
  [][\A q \in Requests :
       (/\ clast'.op = "get" /\ clast'.tr = q.tr /\ clast'.temp = q.temp /\ q.temp = 0
        /\ clast'.ret # None
        /\ clast.op = "set" /\ clast.temp <= 0
        /\ make_key(clast.tr[1], clast.tr[2], clast.tr[3], clast.temp)
             = make_key(q.tr[1], q.tr[2], q.tr[3], q.temp)
        /\ CGet(q))
       => clast.tr = q.tr]_vars

====
